---- MODULE Spec2Model ----
(***************************************************************************)
(* A model of py-nearfs-upload: the varint / CAR / DAG-PB helpers of       *)
(* ipfs_helpers.py and the upload pipeline of nearfs_upload.py             *)
(* (upload_files -> upload_blocks -> is_already_uploaded /                 *)
(* split_on_batches -> sign_and_submit_tx).                                *)
(*                                                                         *)
(* Conventions.  bytes objects whose contents matter byte by byte (varint  *)
(* buffers, CAR streams) are sequences of integers 0..255.  Python offsets *)
(* are 0-based, so data[offset] is data[offset + 1] here.  File contents   *)
(* are byte strings identified by a tag and a length: [tag, len].  SHA-256 *)
(* is idealised as collision free: compute_hash(d) = [sha256 |-> d].       *)
(***************************************************************************)
EXTENDS Integers, Sequences, FiniteSets, TLC

VARIABLES
    pc,                 \* position of the modelled call
    caller,             \* which entry point was called: upload_files or upload_blocks
    arg,                \* argument of a pure helper call (the three helper specifications)
    ret,                \* what the pure helper call returned or raised
    files,              \* upload_files: the files argument
    blocks,             \* blocks_to_upload / the blocks argument of upload_blocks
    root_cid,           \* upload_files: root_cid (bytes)
    blocks_and_status,  \* upload_blocks: blocks_and_status
    attempt,            \* is_already_uploaded: iterations of the retry loop done for the current block
    lastResp,           \* is_already_uploaded: what the latest HEAD request of the current block gave
    onlyFailures,       \* is_already_uploaded: every request of the current block so far failed
    lastCheck,          \* summary of the latest finished is_already_uploaded call
    batches,            \* upload_blocks: batches
    submitted,          \* the batches handed to account.sign_and_submit_tx, in call order
    outcomes,           \* what each of those calls did
    current_blocks,     \* upload_blocks: current_blocks
    total_blocks,       \* upload_blocks: total_blocks
    progress,           \* the status_callback(current_blocks, total_blocks) calls, in order
    error,              \* the exception that left the outermost call: [type, ...], type "none" for none
    result              \* what the outermost call returned: [kind, ...], kind "none" before it returns

vars == << pc, caller, arg, ret, files, blocks, root_cid, blocks_and_status,
           attempt, lastResp, onlyFailures, lastCheck, batches, submitted,
           outcomes, current_blocks, total_blocks, progress, error, result >>

pipelineVars == << caller, files, blocks, root_cid, blocks_and_status, attempt,
                   lastResp, onlyFailures, lastCheck, batches, submitted, outcomes,
                   current_blocks, total_blocks, progress, error, result >>

-----------------------------------------------------------------------------
(* Bounds of the model *)

MaxVarintLen == 3       \* longest buffer given to read_varint
MaxCarLen == 3          \* longest stream given to read_car
MaxSplitLen == 8        \* longest block list given to split_on_batches alone
MaxFiles == 3           \* longest file list given to upload_files
MaxBlocks == 3          \* longest block list given to upload_blocks directly

-----------------------------------------------------------------------------
(* Generic helpers *)

SeqsUpTo(S, n) == UNION { [1..k -> S] : k \in 0..n }

RECURSIVE Pow2(_)
Pow2(n) == IF n = 0 THEN 1 ELSE 2 * Pow2(n - 1)

\* Python's data[a:b] for 0 <= a <= b: it silently stops at the end of data
Slice(data, a, b) ==
    LET hi == IF b > Len(data) THEN Len(data) ELSE b
    IN  IF a >= hi THEN <<>> ELSE SubSeq(data, a + 1, hi)

RECURSIVE Flatten(_)
Flatten(ss) == IF ss = <<>> THEN <<>> ELSE Head(ss) \o Flatten(Tail(ss))

-----------------------------------------------------------------------------
(* ipfs_helpers.py: varint codec *)

\* the while-loop of read_varint; value | (x << shift) adds, because value < 2^shift
RECURSIVE ReadVarintLoop(_, _, _, _)
ReadVarintLoop(data, offset, value, shift) ==
    IF offset >= Len(data)
    THEN [ok |-> FALSE, error |-> "IndexError"]            \* data[offset] past the end
    ELSE LET byte == data[offset + 1]
             value2 == value + (byte % 128) * Pow2(shift)
         IN  IF byte < 128
             THEN [ok |-> TRUE, value |-> value2, offset |-> offset + 1]
             ELSE ReadVarintLoop(data, offset + 1, value2, shift + 7)

read_varint(data, offset) == ReadVarintLoop(data, offset, 0, 0)

RECURSIVE WriteVarintLoop(_, _)
WriteVarintLoop(value, buffer) ==
    LET byte == value % 128
        value2 == value \div 128
    IN  IF value2 = 0
        THEN Append(buffer, byte)
        ELSE WriteVarintLoop(value2, Append(buffer, byte + 128))

\* write_varint with the continuation bit forgotten (buffer.append(byte))
RECURSIVE WriteVarintNoFlagLoop(_, _)
WriteVarintNoFlagLoop(value, buffer) ==
    LET byte == value % 128
        value2 == value \div 128
    IN  IF value2 = 0
        THEN Append(buffer, byte)
        ELSE WriteVarintNoFlagLoop(value2, Append(buffer, byte))

write_varint_no_flag(value) == WriteVarintNoFlagLoop(value, <<>>)

write_varint(value) == WriteVarintLoop(value, <<>>)

-----------------------------------------------------------------------------
(* ipfs_helpers.py: CAR reader *)

RECURSIVE ReadCarLoop(_, _, _)
ReadCarLoop(file_data, offset, acc) ==
    IF offset >= Len(file_data)
    THEN [ok |-> TRUE, blocks |-> acc]
    ELSE LET r == read_varint(file_data, offset)
         IN  IF ~r.ok
             THEN [ok |-> FALSE, error |-> r.error]
             ELSE LET block_length == r.value
                      data_offset == r.offset
                      data == Slice(file_data, data_offset, data_offset + block_length)
                  IN  ReadCarLoop(file_data, data_offset + block_length,
                                  Append(acc, [blockLength |-> block_length,
                                               data |-> data,
                                               startOffset |-> offset]))

read_car(file_data) == ReadCarLoop(file_data, 0, <<>>)

-----------------------------------------------------------------------------
(* ipfs_helpers.py: hashes, CIDs and DAG-PB nodes *)

CODEC_RAW == 85         \* 0x55
CODEC_DAG_PB == 112     \* 0x70
SHA256 == 18            \* 0x12, the hashType upload_files passes
SHA256_SIZE == 32       \* len() of a hashlib.sha256 digest

compute_hash(data) == [sha256 |-> data]

\* bytes([version, codec, hash_type, len(hash_)]) + hash_ ; the digest is one element
pack_cid(cid_data) ==
    IF cid_data.version = 0
    THEN << 18, 32, cid_data.hash >>
    ELSE << cid_data.version, cid_data.codec, cid_data.hashType, SHA256_SIZE,
            cid_data.hash >>

\* len(cid): the leading bytes and the digest
CidLen(cid) == (Len(cid) - 1) + SHA256_SIZE

\* multibase_encode('base32', cid).decode(): the prefix "b" and the base-32 text
cid_to_string(cid) == << "b", cid >>

\* write_pb_link: it reads link['cid'], link['name'], link['size'] in this order
write_pb_link(link) ==
    IF "cid" \notin DOMAIN link THEN [ok |-> FALSE, error |-> [type |-> "KeyError", key |-> "cid"]]
    ELSE IF "name" \notin DOMAIN link THEN [ok |-> FALSE, error |-> [type |-> "KeyError", key |-> "name"]]
    ELSE IF "size" \notin DOMAIN link THEN [ok |-> FALSE, error |-> [type |-> "KeyError", key |-> "size"]]
    ELSE [ok |-> TRUE,
          bytes |-> [cid |-> link.cid, name |-> link.name, size |-> link.size],
          len |-> 1 + Len(write_varint(CidLen(link.cid))) + CidLen(link.cid)
                  + 1 + Len(write_varint(Len(link.name))) + Len(link.name)
                  + 1 + Len(write_varint(link.size))]

\* the for-loop of write_pb_node over node['links']
RECURSIVE WritePbLinks(_, _, _)
WritePbLinks(links, acc, len) ==
    IF links = <<>>
    THEN [ok |-> TRUE, bytes |-> acc, len |-> len]
    ELSE LET l == write_pb_link(Head(links))
         IN  IF ~l.ok
             THEN l
             ELSE WritePbLinks(Tail(links), Append(acc, l.bytes),
                               len + 1 + Len(write_varint(l.len)) + l.len)

\* write_pb_node: the link records, then the data record.  The encoding is kept
\* structured ([links, data]) with its byte length beside it.
write_pb_node(node) ==
    LET ls == WritePbLinks(node.links, <<>>, 0)
    IN  IF ~ls.ok
        THEN ls
        ELSE [ok |-> TRUE,
              bytes |-> [links |-> ls.bytes, data |-> node.data,
                         len |-> ls.len + 1 + Len(write_varint(Len(node.data)))
                                 + Len(node.data)]]

-----------------------------------------------------------------------------
(* nearfs_upload.py: split_on_batches *)

MAX_BATCH_ACTIONS == 7
MAX_BATCH_BYTES == 262144       \* 256 * 1024
retry_count == 3                \* DEFAULT_OPTIONS["retry_count"]

\* sum(len(b['data']) for b in current_batch)
RECURSIVE SumLen(_)
SumLen(batch) == IF batch = <<>> THEN 0 ELSE Head(batch).data.len + SumLen(Tail(batch))

\* the for-loop of split_on_batches; current_batch is the last element of batches
RECURSIVE SplitLoop(_, _)
SplitLoop(new_blocks, bs) ==
    IF new_blocks = <<>>
    THEN bs
    ELSE LET current_batch == bs[Len(bs)]
             bs2 == IF \/ Len(current_batch) >= MAX_BATCH_ACTIONS
                       \/ SumLen(current_batch) >= MAX_BATCH_BYTES
                    THEN Append(bs, <<>>)
                    ELSE bs
         IN  SplitLoop(Tail(new_blocks),
                       [bs2 EXCEPT ![Len(bs2)] = Append(@, Head(new_blocks))])

split_on_batches(new_blocks) == SplitLoop(new_blocks, << <<>> >>)

-----------------------------------------------------------------------------
(* The helper specifications: a pure function applied to a bounded input *)

VarintBytes == {0, 1, 127, 128, 129, 255}
CarBytes == {0, 1, 2, 97, 128}

Idle ==
    /\ caller = "none"
    /\ files = <<>> /\ blocks = <<>> /\ root_cid = <<>>
    /\ blocks_and_status = <<>> /\ attempt = 0
    /\ lastResp = [kind |-> "none"] /\ onlyFailures = TRUE
    /\ lastCheck = [kind |-> "none"]
    /\ batches = <<>> /\ submitted = <<>> /\ outcomes = <<>>
    /\ current_blocks = 0 /\ total_blocks = 0 /\ progress = <<>>
    /\ error = [type |-> "none"] /\ result = [kind |-> "none"]

InitVarint ==
    /\ pc = "read_varint"
    /\ arg \in SeqsUpTo(VarintBytes, MaxVarintLen)
    /\ ret = [ok |-> FALSE, error |-> "NotCalled"]
    /\ Idle

\* read_varint(arg, 0)
ReadVarint ==
    /\ pc = "read_varint"
    /\ ret' = read_varint(arg, 0)
    /\ pc' = "write_varint"
    /\ UNCHANGED << arg, pipelineVars >>

\* write_varint of the value just decoded
WriteVarint ==
    /\ pc = "write_varint"
    /\ ret.ok
    /\ ret' = [ok |-> TRUE, value |-> ret.value, offset |-> ret.offset,
               written |-> write_varint(ret.value)]
    /\ pc' = "returned"
    /\ UNCHANGED << arg, pipelineVars >>

NextVarint == ReadVarint \/ WriteVarint

SpecVarint == InitVarint /\ [][NextVarint]_vars

InitCar ==
    /\ pc = "read_car"
    /\ arg \in SeqsUpTo(CarBytes, MaxCarLen)
    /\ ret = [ok |-> FALSE, error |-> "NotCalled"]
    /\ Idle

\* read_car(arg)
ReadCar ==
    /\ pc = "read_car"
    /\ ret' = read_car(arg)
    /\ pc' = "returned"
    /\ UNCHANGED << arg, pipelineVars >>

NextCar == ReadCar

SpecCar == InitCar /\ [][NextCar]_vars

\* file contents: a byte string is identified by a tag and has a length
Contents == { [tag |-> "hi", len |-> 2], [tag |-> "big", len |-> 262144] }

RawBlock(content) ==
    [data |-> content,
     cid |-> pack_cid([version |-> 1, codec |-> CODEC_RAW, hashType |-> SHA256,
                       hash |-> compute_hash(content)])]

SplitSizes == {1, 200000, 262144}

InitSplit ==
    /\ pc = "split_on_batches"
    /\ arg \in SeqsUpTo({ RawBlock([tag |-> "x", len |-> n]) : n \in SplitSizes },
                         MaxSplitLen)
    /\ ret = << >>
    /\ Idle

\* split_on_batches(arg)
SplitOnBatches ==
    /\ pc = "split_on_batches"
    /\ ret' = split_on_batches(arg)
    /\ pc' = "returned"
    /\ UNCHANGED << arg, pipelineVars >>

NextSplit == SplitOnBatches

SpecSplit == InitSplit /\ [][NextSplit]_vars

-----------------------------------------------------------------------------
(* nearfs_upload.py: upload_files, the DAG-building part *)

\* file names are strings: sequences of one-character strings
Names == { <<"a">>, <<"b">>, <<"a", "/", "b">> }

FileInputs == [name : Names, content : Contents]

\* file["name"].split(os.path.sep)
RECURSIVE SplitPathLoop(_, _, _)
SplitPathLoop(s, cur, acc) ==
    IF s = <<>> THEN Append(acc, cur)
    ELSE IF Head(s) = "/" THEN SplitPathLoop(Tail(s), <<>>, Append(acc, cur))
    ELSE SplitPathLoop(Tail(s), Append(cur, Head(s)), acc)

SplitPath(name) == SplitPathLoop(name, <<>>, <<>>)

\* next((entry for entry in dir_node["links"] if entry["name"] == dir_name), None):
\* the index of the first entry of that name, 0 for None
FindEntry(links, dir_name) ==
    LET hits == { k \in 1..Len(links) : links[k].name = dir_name }
    IN  IF hits = {} THEN 0 ELSE CHOOSE k \in hits : \A j \in hits : k <= j

\* lines 121-135 for one file: the walk down path[:-1], creating directories, and
\* the append of file_entry to the last dir_node.  An entry found by name is
\* taken as it is, a file entry included, and a file entry has no "links".
RECURSIVE InsertFile(_, _, _)
InsertFile(dir_node, path, file_entry) ==
    IF "links" \notin DOMAIN dir_node
    THEN [ok |-> FALSE, error |-> [type |-> "KeyError", key |-> "links"]]
    ELSE IF Len(path) = 1
    THEN [ok |-> TRUE, node |-> [dir_node EXCEPT !.links = Append(@, file_entry)]]
    ELSE LET dir_name == Head(path)
             found == FindEntry(dir_node.links, dir_name)
             links2 == IF found = 0
                       THEN Append(dir_node.links, [name |-> dir_name, links |-> <<>>])
                       ELSE dir_node.links
             k == IF found = 0 THEN Len(links2) ELSE found
             sub == InsertFile(links2[k], Tail(path), file_entry)
         IN  IF ~sub.ok
             THEN sub
             ELSE [ok |-> TRUE,
                   node |-> [dir_node EXCEPT !.links = [links2 EXCEPT ![k] = sub.node]]]

\* the for-loop over files (lines 119-136)
RECURSIVE AddFiles(_, _, _)
AddFiles(fs, root_dir, blocks_to_upload) ==
    IF fs = <<>>
    THEN [ok |-> TRUE, root_dir |-> root_dir, blocks |-> blocks_to_upload]
    ELSE LET file == Head(fs)
             path == SplitPath(file.name)
             content == file.content
             cid == pack_cid([version |-> 1, codec |-> CODEC_RAW, hashType |-> SHA256,
                              hash |-> compute_hash(content)])
             file_entry == [name |-> path[Len(path)], cid |-> cid, size |-> content.len]
             ins == InsertFile(root_dir, path, file_entry)
         IN  IF ~ins.ok
             THEN ins
             ELSE AddFiles(Tail(fs), ins.node,
                           Append(blocks_to_upload, [data |-> content, cid |-> cid]))

\* add_blocks_for_dir (lines 138-147): the sub-directories first, each getting its
\* "cid", then the node of this directory
RECURSIVE add_blocks_for_dir(_, _)
RECURSIVE AddBlocksForEntries(_, _, _)
AddBlocksForEntries(links, k, blocks_to_upload) ==
    IF k > Len(links)
    THEN [ok |-> TRUE, links |-> links, blocks |-> blocks_to_upload]
    ELSE IF "links" \in DOMAIN links[k]
    THEN LET sub == add_blocks_for_dir(links[k], blocks_to_upload)
         IN  IF ~sub.ok
             THEN sub
             ELSE AddBlocksForEntries(
                      [links EXCEPT ![k] = [name |-> links[k].name,
                                            links |-> sub.links,
                                            cid |-> sub.cid]],
                      k + 1, sub.blocks)
    ELSE AddBlocksForEntries(links, k + 1, blocks_to_upload)

add_blocks_for_dir(dir_node, blocks_to_upload) ==
    LET es == AddBlocksForEntries(dir_node.links, 1, blocks_to_upload)
    IN  IF ~es.ok
        THEN es
        ELSE LET pb_node == write_pb_node([links |-> es.links, data |-> <<8, 1>>])
             IN  IF ~pb_node.ok
                 THEN pb_node
                 ELSE LET cid == pack_cid([version |-> 1, codec |-> CODEC_DAG_PB,
                                           hashType |-> SHA256,
                                           hash |-> compute_hash(pb_node.bytes)])
                      IN  [ok |-> TRUE, cid |-> cid, links |-> es.links,
                           blocks |-> Append(es.blocks,
                                             [data |-> pb_node.bytes, cid |-> cid])]

\* lines 116-150 of upload_files
BuildDag(fs) ==
    LET added == AddFiles(fs, [name |-> <<>>, links |-> <<>>], <<>>)
    IN  IF ~added.ok
        THEN added
        ELSE LET dir == add_blocks_for_dir(added.root_dir, added.blocks)
             IN  IF ~dir.ok
                 THEN dir
                 ELSE [ok |-> TRUE, root_cid |-> dir.cid, blocks |-> dir.blocks]

-----------------------------------------------------------------------------
(* nearfs_upload.py: is_already_uploaded and upload_blocks *)

\* what one HEAD request of is_already_uploaded can give
Responses ==
    { [kind |-> "status", status |-> 200],
      [kind |-> "status", status |-> 404],
      [kind |-> "status", status |-> 500],
      [kind |-> "timeout"],             \* asyncio.TimeoutError
      [kind |-> "client_error"] }       \* any other exception of the request

\* a request that failed: a timeout, an unexpected status, a transport error
Failed(resp) ==
    \/ resp.kind \in {"timeout", "client_error"}
    \/ resp.kind = "status" /\ resp.status \notin {200, 404}

\* the try statement without its "except Exception" clause: only timeouts are caught
AttemptOutcomeUncaught(resp) ==
    IF resp.kind = "status" /\ resp.status = 200 THEN "return_true"
    ELSE IF resp.kind = "status" /\ resp.status = 404 THEN "next_iteration"
    ELSE IF resp.kind = "timeout" THEN "continue"
    ELSE "raise"

\* one iteration of the retry loop (lines 27-40): what the try statement does
AttemptOutcome(resp) ==
    IF resp.kind = "status" /\ resp.status = 200 THEN "return_true"
    ELSE IF resp.kind = "status" /\ resp.status = 404 THEN "next_iteration"
    ELSE IF resp.kind = "timeout" THEN "continue"         \* except asyncio.TimeoutError
    ELSE "sleep_next_iteration"                            \* raise / except Exception

\* for _ in range(retry_count): whether iteration number `done` (0-based) runs
LoopRuns(done) == done < retry_count

\* what sign_and_submit_tx can do; a message is a sequence of text fragments
ExpectedErrors ==
    { << "Cannot find contract code for account", " web4.near" >>,
      << "MethodResolveError: ", "Contract method is not found" >> }
HardErrors ==
    { << "Exceeded the prepaid gas" >>,
      << "Transaction ", "has expired" >> }
SubmitOutcomes ==
    { [kind |-> "ok"] } \cup { [kind |-> "raise", msg |-> m] : m \in ExpectedErrors \cup HardErrors }

\* "..." in str(e)
Contains(msg, text) == \E k \in 1..Len(msg) : msg[k] = text

\* is_expected_upload_error with its second pattern forgotten
is_expected_upload_error_first(e) ==
    Contains(e, "Cannot find contract code for account")

is_expected_upload_error(e) ==
    \/ Contains(e, "Cannot find contract code for account")
    \/ Contains(e, "Contract method is not found")

\* line 72 with its "not" forgotten
FilterBlocksPresent(bs) == SelectSeq(bs, LAMBDA block : block.uploaded)

\* line 72
FilterBlocks(bs) == SelectSeq(bs, LAMBDA block : ~block.uploaded)

\* total_blocks = sum(len(batch) for batch in batches)
RECURSIVE TotalBlocks(_)
TotalBlocks(bs) == IF bs = <<>> THEN 0 ELSE Len(Head(bs)) + TotalBlocks(Tail(bs))

\* lines 72-76, run when the existence loop is over
StartTransmission(bas) ==
    /\ batches' = split_on_batches(FilterBlocks(bas))
    /\ total_blocks' = TotalBlocks(split_on_batches(FilterBlocks(bas)))
    /\ current_blocks' = 0
    /\ pc' = "transmit"

\* upload_blocks is entered with bl: it waits on the first existence check, or,
\* bl being empty, goes straight to the batches
EnterUploadBlocks(bl) ==
    /\ blocks' = bl
    /\ blocks_and_status' = <<>>
    /\ attempt' = 0 /\ lastResp' = [kind |-> "none"] /\ onlyFailures' = TRUE
    /\ IF bl = <<>>
       THEN StartTransmission(<<>>)
       ELSE /\ pc' = "check"
            /\ UNCHANGED << batches, total_blocks, current_blocks >>
    /\ UNCHANGED << lastCheck, submitted, outcomes, progress, result >>

Init ==
    /\ pc = "idle"
    /\ arg = <<>> /\ ret = <<>>
    /\ Idle

\* upload_files(fs, options) up to its first wait
UploadFiles ==
    /\ pc = "idle"
    /\ \E fs \in SeqsUpTo(FileInputs, MaxFiles), credentials \in BOOLEAN :
         /\ caller' = "upload_files"
         /\ files' = fs
         /\ IF ~credentials
            THEN /\ error' = [type |-> "ValueError"]
                 /\ pc' = "raised"
                 /\ UNCHANGED << blocks, root_cid, blocks_and_status, attempt, lastResp,
                                 onlyFailures, lastCheck, batches, submitted, outcomes,
                                 current_blocks, total_blocks, progress, result >>
            ELSE LET dag == BuildDag(fs)
                 IN  IF ~dag.ok
                     THEN /\ error' = dag.error
                          /\ pc' = "raised"
                          /\ UNCHANGED << blocks, root_cid, blocks_and_status, attempt,
                                          lastResp, onlyFailures, lastCheck, batches,
                                          submitted, outcomes, current_blocks,
                                          total_blocks, progress, result >>
                     ELSE /\ root_cid' = dag.root_cid
                          /\ EnterUploadBlocks(dag.blocks)
                          /\ UNCHANGED error
    /\ UNCHANGED << arg, ret >>

\* upload_blocks(bl, account, options) called on its own, up to its first wait
UploadBlocks ==
    /\ pc = "idle"
    /\ \E bl \in SeqsUpTo({ RawBlock(c) : c \in Contents }, MaxBlocks) :
         /\ caller' = "upload_blocks"
         /\ EnterUploadBlocks(bl)
    /\ UNCHANGED << arg, ret, files, root_cid, error >>

\* one iteration of the retry loop of is_already_uploaded for block
\* len(blocks_and_status), with what follows it without a wait: the return, the
\* append of line 70 and, after the last block, lines 72-76
CheckAttempt ==
    /\ pc = "check"
    /\ LoopRuns(attempt)
    /\ \E resp \in Responses :
         LET outcome == AttemptOutcome(resp)
             i == Len(blocks_and_status) + 1
             returns == outcome = "return_true" \/ ~LoopRuns(attempt + 1)
             uploaded == outcome = "return_true"
             bas == Append(blocks_and_status,
                           [data |-> blocks[i].data, cid |-> blocks[i].cid,
                            uploaded |-> uploaded])
         IN  IF outcome = "raise"
             THEN /\ error' = [type |-> "Exception"]
                  /\ pc' = "raised"
                  /\ lastResp' = resp
                  /\ UNCHANGED << blocks_and_status, attempt, onlyFailures, lastCheck,
                                  batches, total_blocks, current_blocks >>
             ELSE IF ~returns
             THEN /\ attempt' = attempt + 1
                  /\ lastResp' = resp
                  /\ onlyFailures' = (onlyFailures /\ Failed(resp))
                  /\ UNCHANGED << pc, blocks_and_status, lastCheck, batches, total_blocks,
                                  current_blocks, error >>
             ELSE /\ blocks_and_status' = bas
                  /\ lastCheck' = [kind |-> "returned", index |-> i,
                                   requests |-> attempt + 1,
                                   onlyFailures |-> (onlyFailures /\ Failed(resp)),
                                   uploaded |-> uploaded]
                  /\ attempt' = 0
                  /\ lastResp' = [kind |-> "none"]
                  /\ onlyFailures' = TRUE
                  /\ IF i = Len(blocks)
                     THEN StartTransmission(bas)
                     ELSE UNCHANGED << pc, batches, total_blocks, current_blocks >>
                  /\ UNCHANGED error
    /\ UNCHANGED << caller, arg, ret, files, blocks, root_cid, submitted, outcomes,
                    progress, result >>

\* one iteration of the loop over batches (lines 78-102): the call of
\* sign_and_submit_tx for the next batch and what follows its return or its raise
SubmitBatch ==
    /\ pc = "transmit"
    /\ Len(submitted) < Len(batches)
    /\ \E outcome \in SubmitOutcomes :
         LET k == Len(submitted) + 1
             batch == batches[k]
         IN  /\ submitted' = Append(submitted, batch)
             /\ outcomes' = Append(outcomes, outcome)
             /\ IF outcome.kind = "raise" /\ ~is_expected_upload_error(outcome.msg)
                THEN /\ error' = [type |-> "Exception", msg |-> outcome.msg]
                     /\ pc' = "raised"
                     /\ UNCHANGED << current_blocks, progress, result >>
                ELSE /\ current_blocks' = current_blocks + Len(batch)
                     /\ progress' = Append(progress,
                                           << current_blocks + Len(batch), total_blocks >>)
                     /\ IF k = Len(batches)
                        THEN /\ pc' = "done"
                             /\ result' = IF caller = "upload_files"
                                          THEN [kind |-> "str", value |-> cid_to_string(root_cid)]
                                          ELSE [kind |-> "None"]
                        ELSE UNCHANGED << pc, result >>
                     /\ UNCHANGED error
    /\ UNCHANGED << caller, arg, ret, files, blocks, root_cid, blocks_and_status, attempt,
                    lastResp, onlyFailures, lastCheck, batches, total_blocks >>

Next == UploadFiles \/ UploadBlocks \/ CheckAttempt \/ SubmitBatch

Spec == Init /\ [][Next]_vars

-----------------------------------------------------------------------------
(* The claims *)

\* C1: every batch split_on_batches produces has at most 7 blocks and a total
\* content size under 256 KiB, but for a batch that is one block of at least
\* that size alone.  (SpecSplit)
C1_BatchBounds ==
    pc = "returned" =>
        \A k \in 1..Len(ret) :
            /\ Len(ret[k]) <= 7
            /\ \/ SumLen(ret[k]) < 262144
               \/ Len(ret[k]) = 1 /\ ret[k][1].data.len >= 262144

\* C2: the block list upload_files hands to upload_blocks holds no CID twice,
\* also when two input files have the same content.
C2_NoSharedCid ==
    caller = "upload_files" =>
        \A m, n \in 1..Len(blocks) : m # n => blocks[m].cid # blocks[n].cid

\* the blocks whose existence check returned not-present, in their order
RECURSIVE NotPresent(_)
NotPresent(bas) ==
    IF bas = <<>> THEN <<>>
    ELSE IF Head(bas).uploaded THEN NotPresent(Tail(bas))
    ELSE << Head(bas) >> \o NotPresent(Tail(bas))

IsPrefix(s, t) == Len(s) <= Len(t) /\ s = SubSeq(t, 1, Len(s))

\* C3: no submitted batch holds a block whose existence check returned present;
\* the submitted batches, concatenated in submission order, are always a prefix
\* of the not-present blocks in their original order, and are exactly those
\* blocks once upload_blocks has finished without a hard submission error.
C3_SubmittedIsFiltered ==
    /\ \A k \in 1..Len(submitted) : \A n \in 1..Len(submitted[k]) :
           \E m \in 1..Len(blocks_and_status) :
               /\ ~blocks_and_status[m].uploaded
               /\ blocks_and_status[m].cid = submitted[k][n].cid
               /\ blocks[m].data = submitted[k][n].data
    /\ IsPrefix(Flatten(submitted), NotPresent(blocks_and_status))
    /\ pc = "done" => Flatten(submitted) = NotPresent(blocks_and_status)

\* C3's case: a finished run of several batches that skipped a present block
C3_Witness ==
    /\ pc = "done"
    /\ Len(submitted) >= 2
    /\ \E m \in 1..Len(blocks_and_status) : blocks_and_status[m].uploaded
    /\ Len(Flatten(submitted)) >= 2

\* C4: a submission error is_expected_upload_error recognises is swallowed:
\* progress is reported for that batch and the next batch is the next one
\* submitted.  Any other error is re-raised: it is the last submission, no
\* progress is reported for its batch, and upload_files returns nothing.
C4_SubmissionErrors ==
    \A k \in 1..Len(outcomes) :
        /\ submitted[k] = batches[k]
        /\ (outcomes[k].kind = "raise" /\ outcomes[k].msg \in ExpectedErrors) =>
              /\ Len(progress) >= k
              /\ progress[k] = << TotalBlocks(SubSeq(batches, 1, k)), total_blocks >>
              /\ k = Len(outcomes) =>
                    /\ error.type = "none"
                    /\ pc = IF k < Len(batches) THEN "transmit" ELSE "done"
        /\ (outcomes[k].kind = "raise" /\ outcomes[k].msg \in HardErrors) =>
              /\ k = Len(outcomes)
              /\ Len(submitted) = k
              /\ pc = "raised"
              /\ error = [type |-> "Exception", msg |-> outcomes[k].msg]
              /\ Len(progress) = k - 1
              /\ result.kind = "none"

\* C4's case: batch 1 failed with an expected error, batch 2 with a hard one
C4_Witness ==
    /\ Len(outcomes) = 2
    /\ Len(batches) > 2
    /\ outcomes[1].kind = "raise" /\ outcomes[1].msg \in ExpectedErrors
    /\ outcomes[2].kind = "raise" /\ outcomes[2].msg \in HardErrors

\* an exception left upload_blocks while the existence checks were still running
RaisedInExistencePhase ==
    pc = "raised" /\ blocks # <<>> /\ Len(blocks_and_status) < Len(blocks)

\* C5: is_already_uploaded makes at most retry_count requests for a block; when
\* every one of them failed, it returns not-present without raising: the block
\* is recorded as not uploaded, no exception leaves the existence phase, the
\* next block is checked, and the block is among the batches.
C5_RetriesThenNotPresent ==
    /\ attempt < retry_count
    /\ ~RaisedInExistencePhase
    /\ lastCheck.kind = "returned" =>
          /\ lastCheck.requests <= retry_count
          /\ lastCheck.index = Len(blocks_and_status)
          /\ lastCheck.onlyFailures =>
                /\ lastCheck.requests = retry_count
                /\ ~lastCheck.uploaded
                /\ ~blocks_and_status[lastCheck.index].uploaded
                /\ lastCheck.index < Len(blocks) => pc = "check"
                /\ lastCheck.index = Len(blocks) =>
                      \E n \in 1..Len(Flatten(batches)) :
                          Flatten(batches)[n] = blocks_and_status[lastCheck.index]

\* C5's case: every request of a block failed and the next block is being checked
C5_Witness ==
    /\ lastCheck.kind = "returned"
    /\ lastCheck.onlyFailures
    /\ lastCheck.requests = 3
    /\ pc = "check"
    /\ attempt > 0

\* C6 as stated: for every buffer that read_varint consumes completely as one
\* varint from offset 0, write_varint of the decoded value is the buffer.
\* (SpecVarint)
C6_RoundTrip ==
    (pc = "returned" /\ ret.offset = Len(arg)) => ret.written = arg

\* C6 amended: for every buffer that read_varint consumes completely as one
\* varint from offset 0 and whose last byte is not zero unless it is the only
\* byte, write_varint of the decoded value is the buffer.  (SpecVarint)
C6_RoundTripMinimal ==
    (/\ pc = "returned"
     /\ ret.offset = Len(arg)
     /\ Len(arg) = 1 \/ arg[Len(arg)] # 0) => ret.written = arg

\* C6's case: a three-byte minimal varint went through both functions
C6_Witness ==
    /\ pc = "returned"
    /\ Len(arg) = 3
    /\ ret.offset = 3
    /\ arg[3] # 0
    /\ ret.written = arg

\* C7: read_car never returns a record whose content is shorter than its declared
\* length: a declared length beyond the end of the stream is an error.  (SpecCar)
C7_TruncatedFails ==
    (pc = "returned" /\ ret.ok) =>
        \A k \in 1..Len(ret.blocks) : Len(ret.blocks[k].data) = ret.blocks[k].blockLength

\* C8: with credentials, the DAG-building part of upload_files rejects no file
\* list: it raises nothing and the root directory block is the last block of the
\* list, with no links when there are no files.
C8_BuildNeverRejects ==
    (caller = "upload_files" /\ error.type # "ValueError") =>
        /\ error.type # "KeyError"
        /\ blocks # <<>>
        /\ blocks[Len(blocks)].cid = root_cid
        /\ files = <<>> => blocks[Len(blocks)].data.links = <<>>

\* C9: upload_blocks never calls sign_and_submit_tx for a batch of zero blocks.
C9_NoEmptySubmission ==
    \A k \in 1..Len(submitted) : submitted[k] # <<>>

\* C10: in is_already_uploaded a further request for the same block is made only
\* after the previous one failed; a 404 (like a 200) ends the check.
C10_DefinitiveAnswerEnds ==
    (pc = "check" /\ attempt > 0) => Failed(lastResp)

====
